---- MODULE Spec2Model ----
(***************************************************************************)
(* A model of jeepyb's manage_projects.py: main() reconciles the declared  *)
(* projects against Gerrit, the local bare mirrors and the jeepyb cache    *)
(* checkouts, one project after the other.  One action per command or API  *)
(* call of main() and of the helpers it calls.  The run is started without *)
(* project arguments (args.projects is empty), so no section is filtered,  *)
(* and acl-dir is set in the defaults, so every section has an acl_config. *)
(*                                                                         *)
(* The external world is abstracted as follows.                            *)
(*  - Gerrit holds, per project, the tip of refs/heads/master ("absent":   *)
(*    no such project, "empty": created but nothing pushed, otherwise the  *)
(*    commit pushed) and whether refs/meta/config holds the rendered ACL   *)
(*    document.                                                            *)
(*  - A cache checkout has a current branch, the tips of its local         *)
(*    branches, an "upstream" remote (none / added / fetched), the         *)
(*    symbolic ref remotes/upstream/HEAD and the refs/copy/heads refs.     *)
(*  - Commits are named by where they come from: "boot" is the bootstrap   *)
(*    commit of a fresh checkout, "upstream" is upstream's master, "meta"  *)
(*    is the tip of refs/meta/config.                                      *)
(*  - A command that talks to the network, an API call, and a command      *)
(*    whose exit status the code tests can fail although the state would   *)
(*    let it succeed; every command fails when the state does not let it   *)
(*    succeed.                                                             *)
(*  - The operator's interrupt is Python's KeyboardInterrupt: `except      *)
(*    Exception` does not catch it, `finally` blocks run.                  *)
(***************************************************************************)
EXTENDS Integers, Sequences, FiniteSets, TLC

\* Largest number of declared projects (sections of the second YAML document).
NProjects == 2

\* Number of distinct group names the rendered ACL documents reference.
MaxGroups == 2

\* Number of disturbances of a behaviour: commands and API calls that fail for a
\* reason outside the modelled state, and interrupts by the operator.
MaxFaults == 2

\* _wait_for_group: for x in range(10)
MaxPolls == 10

Projects == 1..NProjects

Groups == 1..MaxGroups

VARIABLES
    pc,              \* position of main()
    sections,        \* number of sections of the second YAML document
    cur,             \* index of the section being processed
    exc,             \* exception propagating out of the project: none / error / interrupt
    runResult,       \* how the last finished run ended: none / completed / error / interrupt
    fault,           \* a command of this section failed for a reason outside the modelled state
    faults,          \* disturbances so far
    project_list,    \* gerrit.listProjects() snapshot of this run
    project_created, \* main()'s local of that name
    push_string,     \* main()'s local of that name: undef / head / copy
    sshWrapper,      \* the GIT_SSH wrapper file exists
    environ,         \* os.environ of the run: the variables set on top of the inherited ones
    upstream,        \* section.get('upstream') is set, per project
    track_upstream,  \* 'track-upstream' in options, per project
    upstream_prefix, \* section.get('upstream-prefix') is set, per project
    gerritProject,   \* Gerrit: tip of refs/heads/master per project
    gerritMeta,      \* Gerrit: refs/meta/config holds the rendered document
    gerritGroup,     \* Gerrit: absent / pending (creation requested) / visible
    mirror,          \* LOCAL_GIT_DIR/<project>.git exists
    repoExists,      \* JEEPYB_CACHE_DIR/<project> exists
    origin,          \* cache checkout: where the remote origin points: none/gerrit/upstream
    head,            \* cache checkout: current branch
    branches,        \* cache checkout: tip of each local branch ("none": no such branch)
    remoteUpstream,  \* cache checkout: remote "upstream": none / added / fetched
    upstreamHead,    \* cache checkout: refs/remotes/upstream/HEAD exists
    copyRefs,        \* cache checkout: refs/copy/heads/* exist
    cmds,            \* commands issued for the current project, with their success
    errors,          \* log.error / log.exception messages of the current project
    matAction,       \* materialization branch taken for the current project
    tok,             \* upstream sync: index into the branch listing
    line,            \* create_groups_file: index of the document line being read
    uuids,           \* create_groups_file: groups resolved so far
    polls,           \* _wait_for_group: polls done for the current group
    seen,            \* _wait_for_group: a poll listed the group
    queries,         \* get_group_uuid: _get_group_uuid calls for the current group
    creates,         \* get_group_uuid: createGroup calls for the current group
    uuid,            \* get_group_uuid: result for the current group: unset / found / none
    groupsWritten,   \* the groups file was written in this ACL step
    dirty            \* the working tree differs from the checked out commit

cfgVars == <<sections, upstream, track_upstream, upstream_prefix>>

gerritVars == <<gerritProject, gerritMeta, gerritGroup>>

gitVars == <<repoExists, origin, head, branches, remoteUpstream, upstreamHead, copyRefs>>

grpVars == <<line, uuids, polls, seen, queries, creates, uuid>>

runVars == <<cur, runResult, project_list, sshWrapper>>

faultVars == <<fault, faults>>

vars == <<pc, sections, cur, environ, exc, runResult, fault, faults, project_list, project_created, push_string,
          sshWrapper, upstream, track_upstream, upstream_prefix, gerritProject, gerritMeta,
          gerritGroup, mirror, repoExists, origin, head, branches, remoteUpstream, upstreamHead, copyRefs,
          cmds, errors, matAction, tok, line, uuids, polls, seen, queries, creates,
          uuid, groupsWritten, dirty>>

BranchNames == {"master", "config", "HEAD", "upstream/master", "upstream/HEAD"}

NoBranches == [b \in BranchNames |-> "none"]

\* make_ssh_wrapper's result, the env argument of the commands that talk to Gerrit or
\* to upstream: dict(GIT_SSH=name).
SshEnv == {"GIT_SSH"}

\* run_command: newenv = os.environ; newenv.update(env).  newenv is os.environ itself,
\* so this is both what the subprocess gets and what os.environ is afterwards.
UpdatedEnviron(e, env) == e \cup env

\* run_command / git_command: the command is run and its exit status is returned.
Issue(c, ok) == cmds' = Append(cmds, [c |-> c, ok |-> ok])

Issue2(c1, ok1, c2, ok2) == cmds' = cmds \o <<[c |-> c1, ok |-> ok1], [c |-> c2, ok |-> ok2]>>

Issued(c) == \E i \in 1..Len(cmds) : cmds[i].c = c

IssuedOk(c) == \E i \in 1..Len(cmds) : cmds[i].c = c /\ cmds[i].ok

Count(c) == Cardinality({i \in 1..Len(cmds) : cmds[i].c = c})

Before(c1, c2) == \A j \in 1..Len(cmds) : cmds[j].c = c2 =>
                      \E i \in 1..(j - 1) : cmds[i].c = c1

\* A command that can fail for a reason outside the modelled state: it succeeds
\* only if pre holds, and a failure although pre holds is an outside fault.
Disturbed(b) == /\ b => faults < MaxFaults
                /\ faults' = IF b THEN faults + 1 ELSE faults
                /\ fault' = (fault \/ b)

Outcome(ok, pre) == /\ ok => pre
                    /\ Disturbed(pre /\ ~ok)

\* The state before the first run, for a configuration file with n sections, n in
\* lengths: nothing exists in Gerrit or on disk.
Start(lengths) ==
    /\ pc = "idle"
    /\ sections \in lengths
    /\ cur = 0
    /\ exc = "none"
    /\ runResult = "none"
    /\ fault = FALSE
    /\ faults = 0
    /\ project_list = {}
    /\ project_created = FALSE
    /\ push_string = "undef"
    /\ sshWrapper = FALSE
    /\ environ = {}
    /\ upstream \in [Projects -> BOOLEAN]
    /\ track_upstream \in [Projects -> BOOLEAN]
    /\ \A p \in Projects : track_upstream[p] => upstream[p]
    /\ upstream_prefix \in [Projects -> BOOLEAN]
    /\ \A p \in Projects : upstream_prefix[p] => track_upstream[p]
    /\ \A p \in Projects : p > sections => ~upstream[p]
    /\ gerritProject = [p \in Projects |-> "absent"]
    /\ gerritMeta = [p \in Projects |-> FALSE]
    /\ gerritGroup = [g \in Groups |-> "absent"]
    /\ mirror = [p \in Projects |-> FALSE]
    /\ repoExists = [p \in Projects |-> FALSE]
    /\ origin = [p \in Projects |-> "none"]
    /\ head = [p \in Projects |-> "master"]
    /\ branches = [p \in Projects |-> NoBranches]
    /\ remoteUpstream = [p \in Projects |-> "none"]
    /\ upstreamHead = [p \in Projects |-> FALSE]
    /\ copyRefs = [p \in Projects |-> FALSE]
    /\ cmds = <<>>
    /\ errors = {}
    /\ matAction = "none"
    /\ tok = 0
    /\ line = 0
    /\ uuids = {}
    /\ polls = 0
    /\ seen = FALSE
    /\ queries = 0
    /\ creates = 0
    /\ uuid = "unset"
    /\ groupsWritten = FALSE
    /\ dirty = FALSE

\* A configuration file that declares up to NProjects projects, of which the first may
\* have an upstream.
Init ==
    /\ Start(1..NProjects)
    /\ \A p \in Projects : p > 1 => ~upstream[p]

\* A configuration file that declares one project.
InitSingle == Start({1})

\* The locals of one iteration of `for section in configs[1]`.
ResetSection ==
    /\ fault' = FALSE
    /\ project_created' = FALSE
    /\ cmds' = <<>>
    /\ errors' = {}
    /\ matAction' = "none"
    /\ tok' = 0
    /\ line' = 0
    /\ uuids' = {}
    /\ polls' = 0
    /\ seen' = FALSE
    /\ queries' = 0
    /\ creates' = 0
    /\ uuid' = "unset"
    /\ groupsWritten' = FALSE
    /\ dirty' = FALSE

sectionVars == <<fault, project_created, cmds, errors, matAction, tok, line, uuids, polls, seen,
                 queries, creates, uuid, groupsWritten, dirty>>

\* main(): listProjects, make_ssh_wrapper, first section of the loop.
RunStart ==
    /\ pc = "idle"
    /\ project_list' = {p \in Projects : gerritProject[p] # "absent"}
    /\ sshWrapper' = TRUE
    /\ cur' = 1
    /\ exc' = "none"
    /\ push_string' = "undef"
    /\ ResetSection
    /\ pc' = "create"
    /\ UNCHANGED <<runResult, faults, cfgVars, gerritVars, mirror, gitVars>>
    /\ environ' = {}

\* Create the project in Gerrit first.
CreateProject ==
    /\ pc = "create"
    /\ IF cur \notin project_list
       THEN \E ok \in BOOLEAN :
              /\ Outcome(ok, gerritProject[cur] = "absent")
              /\ project_created' = ok
              /\ gerritProject' = IF ok THEN [gerritProject EXCEPT ![cur] = "empty"]
                                        ELSE gerritProject
              /\ errors' = IF ok THEN errors ELSE errors \cup {"Exception creating in Gerrit"}
              /\ Issue("createProject", ok)
       ELSE UNCHANGED <<project_created, gerritProject, errors, cmds, faultVars>>
    /\ pc' = "mirror"
    /\ UNCHANGED <<runVars, exc, push_string, cfgVars, gerritMeta, gerritGroup, mirror,
                   gitVars, matAction, tok, grpVars, groupsWritten, dirty>>
    /\ UNCHANGED environ

\* Create the repo for the local git mirror.
InitMirror ==
    /\ pc = "mirror"
    /\ IF ~mirror[cur]
       THEN /\ mirror' = [mirror EXCEPT ![cur] = TRUE]
            /\ Issue2("bare init", TRUE, "chown", TRUE)
       ELSE UNCHANGED <<mirror, cmds>>
    /\ pc' = "materialize"
    /\ UNCHANGED <<runVars, exc, faultVars, project_created, push_string, cfgVars, gerritVars,
                   gitVars, errors, matAction, tok, grpVars, groupsWritten, dirty>>
    /\ UNCHANGED environ

\* The branches main() would take with `if not os.path.exists(repo_path):` alone.
ClassifyIgnoringCreated(listed, cacheExists, created, hasUpstream) ==
    IF ~cacheExists
    THEN IF listed THEN "clone"
         ELSE IF hasUpstream THEN "import"
         ELSE "fresh"
    ELSE IF listed THEN "refresh"
         ELSE "none"

\* The branch of `if not os.path.exists(repo_path) or project_created: ... else: ...`
\* that main() takes; "none" when it takes none.
Classify(listed, cacheExists, created, hasUpstream) ==
    IF ~cacheExists \/ created
    THEN IF listed THEN "clone"
         ELSE IF hasUpstream THEN "import"
         ELSE "fresh"
    ELSE IF listed THEN "refresh"
         ELSE "none"

\* The first command of each branch, with the clone from Gerrit taking the commands of
\* the upstream import.
FirstStepImportForClone(action) ==
    CASE action \in {"clone", "import"} -> "clone_upstream"
      [] action = "fresh" -> "git_init"
      [] action = "refresh" -> "refresh_remote"
      [] OTHER -> "publish"

FirstStep(action) ==
    CASE action = "clone" -> "clone_gerrit"
      [] action = "import" -> "clone_upstream"
      [] action = "fresh" -> "git_init"
      [] action = "refresh" -> "refresh_remote"
      [] OTHER -> "publish"

\* If we don't have a local copy already, get one; else make sure it's in shape.
Materialize ==
    /\ pc = "materialize"
    /\ matAction' = Classify(cur \in project_list, repoExists[cur], project_created,
                             upstream[cur])
    /\ pc' = FirstStep(matAction')
    /\ UNCHANGED <<runVars, exc, faultVars, project_created, push_string, cfgVars, gerritVars,
                   mirror, gitVars, cmds, errors, tok, grpVars, groupsWritten, dirty>>
    /\ UNCHANGED environ

\* The tip a clone of the Gerrit project checks out.
GerritTip(p) == IF gerritProject[p] \in {"absent", "empty"} THEN "none" ELSE gerritProject[p]

\* Gerrit knows about the project, clone it.
CloneFromGerrit ==
    /\ pc = "clone_gerrit"
    /\ \E ok \in BOOLEAN :
         /\ Outcome(ok, ~repoExists[cur] /\ gerritProject[cur] # "absent")
         /\ Issue("clone gerrit", ok)
         /\ IF ok
            THEN /\ repoExists' = [repoExists EXCEPT ![cur] = TRUE]
                 /\ head' = [head EXCEPT ![cur] = "master"]
                 /\ origin' = [origin EXCEPT ![cur] = "gerrit"]
                 /\ branches' = [branches EXCEPT
                                   ![cur] = [NoBranches EXCEPT !["master"] = GerritTip(cur)]]
                 /\ remoteUpstream' = [remoteUpstream EXCEPT ![cur] = "none"]
                 /\ upstreamHead' = [upstreamHead EXCEPT ![cur] = FALSE]
                 /\ copyRefs' = [copyRefs EXCEPT ![cur] = FALSE]
            ELSE UNCHANGED gitVars
    /\ pc' = IF upstream[cur] THEN "add_upstream" ELSE "publish"
    /\ UNCHANGED <<runVars, exc, project_created, push_string, cfgVars, gerritVars, mirror,
                   errors, matAction, tok, grpVars, groupsWritten, dirty>>
    /\ environ' = UpdatedEnviron(environ, SshEnv)

\* remote add -f upstream, after the clone from Gerrit.
AddUpstreamRemote ==
    /\ pc = "add_upstream"
    /\ \E ok \in BOOLEAN :
         /\ Outcome(ok, repoExists[cur] /\ remoteUpstream[cur] = "none")
         /\ Issue("remote add -f upstream", ok)
         /\ remoteUpstream' = IF ok THEN [remoteUpstream EXCEPT ![cur] = "fetched"]
                                    ELSE remoteUpstream
    /\ pc' = "publish"
    /\ UNCHANGED <<runVars, exc, project_created, push_string, cfgVars, gerritVars, mirror,
                   repoExists, origin, head, branches, upstreamHead, copyRefs, errors, matAction,
                   tok, grpVars, groupsWritten, dirty>>
    /\ UNCHANGED environ

\* Gerrit doesn't have it, but it has an upstream configured: clone upstream.
CloneUpstream ==
    /\ pc = "clone_upstream"
    /\ \E ok \in BOOLEAN :
         /\ Outcome(ok, ~repoExists[cur])
         /\ Issue("clone upstream", ok)
         /\ IF ok
            THEN /\ repoExists' = [repoExists EXCEPT ![cur] = TRUE]
                 /\ head' = [head EXCEPT ![cur] = "master"]
                 /\ origin' = [origin EXCEPT ![cur] = "upstream"]
                 /\ branches' = [branches EXCEPT
                                   ![cur] = [NoBranches EXCEPT !["master"] = "upstream"]]
                 /\ remoteUpstream' = [remoteUpstream EXCEPT ![cur] = "none"]
                 /\ upstreamHead' = [upstreamHead EXCEPT ![cur] = FALSE]
                 /\ copyRefs' = [copyRefs EXCEPT ![cur] = FALSE]
            ELSE UNCHANGED gitVars
    /\ pc' = "fetch_copy"
    /\ UNCHANGED <<runVars, exc, project_created, push_string, cfgVars, gerritVars, mirror,
                   errors, matAction, tok, grpVars, groupsWritten, dirty>>
    /\ environ' = UpdatedEnviron(environ, SshEnv)

\* fetch origin +refs/heads/*:refs/copy/heads/*.  Origin is upstream when a clone of
\* upstream made the checkout and the remotes were not renamed since; else it is the
\* Gerrit project, which on this path has no branch yet, so that the fetch copies
\* nothing and leaves the refs of an earlier copy in place.
FetchCopyRefs ==
    /\ pc = "fetch_copy"
    /\ \E ok \in BOOLEAN :
         /\ Outcome(ok, /\ repoExists[cur]
                        /\ \/ origin[cur] = "upstream"
                           \/ (origin[cur] = "gerrit" /\ gerritProject[cur] = "empty"))
         /\ Issue("fetch copy refs", ok)
         /\ copyRefs' = IF ok /\ origin[cur] = "upstream"
                        THEN [copyRefs EXCEPT ![cur] = TRUE] ELSE copyRefs
    /\ pc' = "rename_remotes"
    /\ UNCHANGED <<runVars, exc, project_created, push_string, cfgVars, gerritVars, mirror,
                   repoExists, origin, head, branches, remoteUpstream, upstreamHead, errors,
                   matAction, tok, grpVars, groupsWritten, dirty>>
    /\ environ' = UpdatedEnviron(environ, SshEnv)

\* remote rename origin upstream; remote add origin <gerrit>; push_string = copy refs.
\* The rename fails when a remote named upstream exists, and the addition when a
\* remote named origin does.
RenameRemotes ==
    /\ pc = "rename_remotes"
    /\ LET ok == repoExists[cur] /\ remoteUpstream[cur] = "none"
       IN /\ Issue2("remote rename origin upstream", ok, "remote add origin", ok)
          /\ remoteUpstream' = IF ok THEN [remoteUpstream EXCEPT ![cur] = "fetched"]
                                     ELSE remoteUpstream
          /\ upstreamHead' = IF ok THEN [upstreamHead EXCEPT ![cur] = TRUE]
                                   ELSE upstreamHead
          /\ origin' = IF ok THEN [origin EXCEPT ![cur] = "gerrit"] ELSE origin
    /\ push_string' = "copy"
    /\ pc' = "publish"
    /\ UNCHANGED <<runVars, exc, faultVars, project_created, cfgVars, gerritVars, mirror,
                   repoExists, head, branches, copyRefs, errors, matAction, tok, grpVars,
                   groupsWritten, dirty>>
    /\ UNCHANGED environ

\* Neither Gerrit has it nor does it have an upstream: git init, remote add origin.
GitInit ==
    /\ pc = "git_init"
    /\ Issue2("init", TRUE, "remote add origin", ~repoExists[cur])
    /\ IF ~repoExists[cur]
       THEN /\ repoExists' = [repoExists EXCEPT ![cur] = TRUE]
            /\ head' = [head EXCEPT ![cur] = "master"]
            /\ origin' = [origin EXCEPT ![cur] = "gerrit"]
            /\ branches' = [branches EXCEPT ![cur] = NoBranches]
            /\ remoteUpstream' = [remoteUpstream EXCEPT ![cur] = "none"]
            /\ upstreamHead' = [upstreamHead EXCEPT ![cur] = FALSE]
            /\ copyRefs' = [copyRefs EXCEPT ![cur] = FALSE]
       ELSE UNCHANGED gitVars
    /\ pc' = "gitreview"
    /\ UNCHANGED <<runVars, exc, faultVars, project_created, push_string, cfgVars, gerritVars,
                   mirror, errors, matAction, tok, grpVars, groupsWritten, dirty>>
    /\ UNCHANGED environ

\* Write .gitreview, add it, commit it (the commit has something to commit only on
\* a branch without a commit); push_string = HEAD.
BootstrapCommit ==
    /\ pc = "gitreview"
    /\ LET ok == repoExists[cur] /\ branches[cur][head[cur]] = "none"
       IN /\ Issue2("add .gitreview", repoExists[cur], "commit .gitreview", ok)
          /\ branches' = IF ok THEN [branches EXCEPT ![cur][head[cur]] = "boot"]
                               ELSE branches
    /\ push_string' = "head"
    /\ pc' = "publish"
    /\ UNCHANGED <<runVars, exc, faultVars, project_created, cfgVars, gerritVars, mirror,
                   repoExists, origin, head, remoteUpstream, upstreamHead, copyRefs, errors,
                   matAction, tok, grpVars, groupsWritten, dirty>>
    /\ UNCHANGED environ

\* Refresh: add the upstream remote if we track upstream and have none, else set its URL.
RefreshRemote ==
    /\ pc = "refresh_remote"
    /\ IF track_upstream[cur] /\ remoteUpstream[cur] = "none"
       THEN /\ Issue("remote add upstream", repoExists[cur])
            /\ remoteUpstream' = [remoteUpstream EXCEPT ![cur] = "added"]
       ELSE /\ Issue("remote set-url upstream", remoteUpstream[cur] # "none")
            /\ UNCHANGED remoteUpstream
    /\ pc' = "refresh_update"
    /\ UNCHANGED <<runVars, exc, faultVars, project_created, push_string, cfgVars, gerritVars,
                   mirror, repoExists, origin, head, branches, upstreamHead, copyRefs, errors,
                   matAction, tok, grpVars, groupsWritten, dirty>>
    /\ UNCHANGED environ

\* remote update --prune
RefreshUpdate ==
    /\ pc = "refresh_update"
    /\ \E ok \in BOOLEAN :
         /\ Outcome(ok, repoExists[cur])
         /\ Issue("remote update", ok)
         /\ remoteUpstream' = IF ok /\ remoteUpstream[cur] = "added"
                              THEN [remoteUpstream EXCEPT ![cur] = "fetched"]
                              ELSE remoteUpstream
    /\ pc' = "refresh_checkout"
    /\ UNCHANGED <<runVars, exc, project_created, push_string, cfgVars, gerritVars, mirror,
                   repoExists, origin, head, branches, upstreamHead, copyRefs, errors, matAction,
                   tok, grpVars, groupsWritten, dirty>>
    /\ environ' = UpdatedEnviron(environ, SshEnv)

\* checkout -B master origin/master
RefreshCheckout ==
    /\ pc = "refresh_checkout"
    /\ \E ok \in BOOLEAN :
         /\ Outcome(ok, repoExists[cur] /\ GerritTip(cur) # "none")
         /\ Issue("checkout -B master origin/master", ok)
         /\ head' = IF ok THEN [head EXCEPT ![cur] = "master"] ELSE head
         /\ branches' = IF ok THEN [branches EXCEPT ![cur]["master"] = GerritTip(cur)]
                              ELSE branches
    /\ pc' = "publish"
    /\ UNCHANGED <<runVars, exc, project_created, push_string, cfgVars, gerritVars, mirror,
                   repoExists, origin, remoteUpstream, upstreamHead, copyRefs, errors, matAction,
                   tok, grpVars, groupsWritten, dirty>>
    /\ UNCHANGED environ

\* The statements of main()'s try block around the ACL helpers.
AclTry == {"fetch_config", "checkout_config", "copy_acl", "grp_line", "grp_query",
           "grp_create", "grp_poll", "grp_requery", "grp_write", "commit_acl", "push_acl"}

AclCleanup == {"cleanup_reset", "cleanup_checkout", "cleanup_branch"}

\* main() without the outer try/finally: an exception ends the run where it is.
RaiseUncaught(at) == IF at \in AclTry THEN "cleanup_reset" ELSE "idle"

\* Where an exception that no `except` clause catches goes when it is raised at the
\* statement `at`: to the finally of the ACL try block when raised inside that block,
\* else to the outer finally.
Raise(at) == IF at \in AclTry THEN "cleanup_reset" ELSE "unlink"

\* `if 'has-github' in options or default_has_github:` and the first half of
\* create_github_project, which main() calls outside any try block: the secure config
\* is read and the organizations of the GitHub user are listed.  "off": has-github is
\* not set; "on": the organizations were listed; "raise": an exception of the config
\* parser or of the GitHub API, which nothing catches.
PublishGithub ==
    /\ pc = "publish"
    /\ \E r \in {"off", "on", "raise"} :
         /\ exc' = IF r = "raise" THEN "error" ELSE exc
         /\ Disturbed(r = "raise")
         /\ pc' = CASE r = "off" -> "initial_push"
                    [] r = "on" -> "github_org"
                    [] OTHER -> Raise(pc)
    /\ UNCHANGED <<runVars, project_created, push_string, cfgVars, gerritVars, mirror,
                   gitVars, cmds, errors, matAction, tok, grpVars, groupsWritten, dirty>>
    /\ UNCHANGED environ

\* create_github_project without the `except KeyError`: the KeyError ends the run.
OrgLookupUncaught(found) == IF found THEN "github_repo" ELSE "unlink"

\* create_github_project: org = orgs_dict[org_name.lower()]; on a KeyError the
\* function returns.
OrgLookup(found) == IF found THEN "github_repo" ELSE "initial_push"

\* create_github_project: the lookup of the project's organization among the ones the
\* GitHub user belongs to.
GithubOrg ==
    /\ pc = "github_org"
    /\ \E found \in BOOLEAN : pc' = OrgLookup(found)
    /\ UNCHANGED <<runVars, exc, faultVars, project_created, push_string, cfgVars,
                   gerritVars, mirror, gitVars, cmds, errors, matAction, tok, grpVars,
                   groupsWritten, dirty>>
    /\ UNCHANGED environ

\* create_github_project: get_repo or create_repo, the repo.edit calls and the team;
\* an exception of these calls is caught by nothing.
GithubRepo ==
    /\ pc = "github_repo"
    /\ \E ok \in BOOLEAN :
         /\ Disturbed(~ok)
         /\ Issue("github repo", ok)
         /\ exc' = IF ok THEN exc ELSE "error"
         /\ pc' = IF ok THEN "initial_push" ELSE Raise(pc)
    /\ UNCHANGED <<runVars, project_created, push_string, cfgVars, gerritVars, mirror,
                   gitVars, errors, matAction, tok, grpVars, groupsWritten, dirty>>
    /\ UNCHANGED environ

\* The initial push with the push_string of the import branch in every branch.
PushedTipCopyRefs(p) == IF copyRefs[p] THEN "upstream" ELSE "none"

\* The initial push with the push_string of the fresh branch in every branch: the
\* current branch is pushed.
PushedTipHead(p) == branches[p][head[p]]

\* What `push_string % remote_url` pushes to refs/heads of the Gerrit project.
PushedTip(p) == IF push_string = "copy" THEN (IF copyRefs[p] THEN "upstream" ELSE "none")
                ELSE branches[p][head[p]]

\* The initial push attempted for every project.
PushOwedAlways(created) == TRUE

\* `if project_created:`, the guard of the initial push and so of the use of push_string.
PushOwed(created) == created

\* if project_created: push push_string, push --tags (inside try/except Exception).
InitialPush ==
    /\ pc = "initial_push"
    /\ IF ~PushOwed(project_created)
       THEN UNCHANGED <<cmds, errors, gerritProject, faultVars>>
       ELSE IF push_string = "undef"
       THEN /\ errors' = errors \cup {"Error pushing to Gerrit"}
            /\ UNCHANGED <<cmds, gerritProject, faultVars>>
       ELSE \E ok \in BOOLEAN :
              /\ Outcome(ok, repoExists[cur] /\ PushedTip(cur) # "none"
                               /\ gerritProject[cur] = "empty")
              /\ Issue2("push initial", ok, "push --tags", repoExists[cur])
              /\ gerritProject' = IF ok THEN [gerritProject EXCEPT ![cur] = PushedTip(cur)]
                                        ELSE gerritProject
              /\ UNCHANGED errors
    /\ pc' = "sync"
    /\ UNCHANGED <<runVars, exc, project_created, push_string, cfgVars, gerritMeta,
                   gerritGroup, mirror, gitVars, matAction, tok, grpVars, groupsWritten,
                   dirty>>
    /\ environ' = IF PushOwed(project_created) /\ push_string # "undef"
                  THEN UpdatedEnviron(environ, SshEnv) ELSE environ

\* if track_upstream: remote update upstream --prune
SyncUpdate ==
    /\ pc = "sync"
    /\ IF track_upstream[cur]
       THEN \E ok \in BOOLEAN :
              /\ Outcome(ok, repoExists[cur] /\ remoteUpstream[cur] # "none")
              /\ Issue("remote update upstream", ok)
              /\ remoteUpstream' = IF ok THEN [remoteUpstream EXCEPT ![cur] = "fetched"]
                                         ELSE remoteUpstream
              /\ tok' = 1
              /\ pc' = "sync_branch"
       ELSE /\ pc' = "acl"
            /\ UNCHANGED <<faultVars, cmds, remoteUpstream, tok>>
    /\ UNCHANGED <<runVars, exc, project_created, push_string, cfgVars, gerritVars, mirror,
                   repoExists, origin, head, branches, upstreamHead, copyRefs, errors, matAction,
                   grpVars, groupsWritten, dirty>>
    /\ environ' = IF track_upstream[cur] THEN UpdatedEnviron(environ, SshEnv) ELSE environ

\* The output of `git branch -a`, split on white space: a local branch, then the
\* symbolic ref line "remotes/upstream/HEAD -> upstream/master" (three words), then
\* upstream's branch.  Without a checkout the command prints no branch.  The words
\* for the other local branches and for origin's, which the loop skips as it skips
\* "master", are left out.
BranchListing(p) ==
    IF ~repoExists[p] THEN <<>>
    ELSE <<"master">>
         \o (IF upstreamHead[p] /\ remoteUpstream[p] = "fetched"
             THEN <<"remotes/upstream/HEAD", "->", "upstream/master">> ELSE <<>>)
         \o (IF remoteUpstream[p] = "fetched" THEN <<"remotes/upstream/master">> ELSE <<>>)

\* branch.strip().startswith("remotes/upstream")
StartsWithRemotesUpstream(t) == t \in {"remotes/upstream/HEAD", "remotes/upstream/master"}

\* "->" in branch
HasArrow(t) == t = "->"

\* branch[len('remotes/upstream/'):]
LocalBranch(t) == IF t = "remotes/upstream/HEAD" THEN "HEAD" ELSE "master"

\* local_branch = "%s/%s" % (upstream_prefix, local_branch) under `if upstream_prefix:`;
\* the prefix of a project that has one is "upstream".
PrefixedBranch(prefixed, lb) == IF prefixed THEN "upstream/" \o lb ELSE lb

\* `git checkout -b`: a local branch that exists is left as it is.
CheckoutKeepExisting(old, new) == IF old = "none" THEN new ELSE old

\* The tip of the local branch after `git checkout -B <local_branch> <branch>`: the
\* branch is created, or reset when it exists, at the tip of the upstream branch.
CheckoutB(old, new) == new

\* One iteration of `for branch in git_command_output(repo_path, "branch -a")[1].split()`.
\* Whether git accepts a branch named HEAD depends on the git build.
SyncBranch ==
    /\ pc = "sync_branch"
    /\ IF tok > Len(BranchListing(cur))
       THEN /\ pc' = "sync_push"
            /\ UNCHANGED <<tok, cmds, head, branches>>
       ELSE LET t == BranchListing(cur)[tok]
                lb == PrefixedBranch(upstream_prefix[cur], LocalBranch(t))
            IN /\ tok' = tok + 1
               /\ pc' = "sync_branch"
               /\ IF ~StartsWithRemotesUpstream(t) \/ HasArrow(t)
                  THEN UNCHANGED <<cmds, head, branches>>
                  ELSE \E ok \in BOOLEAN :
                         /\ lb # "HEAD" => ok
                         /\ Issue("checkout -B " \o lb, ok)
                         /\ head' = IF ok THEN [head EXCEPT ![cur] = lb] ELSE head
                         /\ branches' = IF ok
                                         THEN [branches EXCEPT
                                                 ![cur][lb] = CheckoutB(@, "upstream")]
                                         ELSE branches
    /\ UNCHANGED <<runVars, exc, faultVars, project_created, push_string, cfgVars, gerritVars,
                   mirror, repoExists, origin, remoteUpstream, upstreamHead, copyRefs, errors,
                   matAction, grpVars, groupsWritten, dirty>>
    /\ UNCHANGED environ

\* push origin refs/heads/*:refs/heads/*, push origin --tags (a push that is not a
\* fast-forward is rejected).
SyncPush ==
    /\ pc = "sync_push"
    /\ \E ok \in BOOLEAN :
         /\ Outcome(ok, /\ repoExists[cur] /\ gerritProject[cur] # "absent"
                        /\ GerritTip(cur) \in {"none", branches[cur]["master"]})
         /\ Issue2("push origin heads", ok, "push origin --tags",
                   repoExists[cur] /\ gerritProject[cur] # "absent")
         /\ gerritProject' = IF ok /\ branches[cur]["master"] # "none"
                             THEN [gerritProject EXCEPT ![cur] = branches[cur]["master"]]
                             ELSE gerritProject
    /\ pc' = "acl"
    /\ UNCHANGED <<runVars, exc, project_created, push_string, cfgVars, gerritMeta,
                   gerritGroup, mirror, gitVars, errors, matAction, tok, grpVars,
                   groupsWritten, dirty>>
    /\ environ' = UpdatedEnviron(environ, SshEnv)

\* The group names of the `group NAME` lines of a rendered project.config, in the
\* order of the lines; the first group is referenced twice.
AclGroupLines == [i \in 1..(MaxGroups + 1) |-> IF i = 1 THEN 1 ELSE i - 1]

\* acl_config = section.get('acl-config', ...); write_acl_config when the file is
\* missing.  "present": the document exists or is rendered; "missing":
\* write_acl_config returns 1 and leaves no file; "raise": the parameter
\* substitution raises, outside any try block.
RenderAcl ==
    /\ pc = "acl"
    /\ \E r \in {"present", "missing", "raise"} :
         /\ Issue("acl document", r = "present")
         /\ exc' = IF r = "raise" THEN "error" ELSE exc
         /\ Disturbed(r \in {"missing", "raise"})
         /\ pc' = IF r = "raise" THEN Raise(pc) ELSE "fetch_config"
    /\ UNCHANGED <<runVars, project_created, push_string, cfgVars, gerritVars, mirror,
                   gitVars, errors, matAction, tok, grpVars, groupsWritten, dirty>>
    /\ UNCHANGED environ

\* The ACL helpers called one after the other whatever they return.
AndThenRegardless(ok, next) == next

\* `if status != 0: ... return False` in an ACL helper and the `and` that chains the
\* helpers in main(): the statement `next` is reached only when the command succeeded,
\* else the finally block of the ACL step is.
AndThen(ok, next) == IF ok THEN next ELSE "cleanup_reset"

\* fetch_config: fetch <gerrit> +refs/meta/config:refs/remotes/gerrit-meta/config
FetchConfig ==
    /\ pc = "fetch_config"
    /\ \E ok \in BOOLEAN :
         /\ Outcome(ok, repoExists[cur] /\ gerritProject[cur] # "absent")
         /\ Issue("fetch meta/config", ok)
         /\ errors' = IF ok THEN errors ELSE errors \cup {"Failed to fetch refs/meta/config"}
         /\ pc' = AndThen(ok, "checkout_config")
    /\ UNCHANGED <<runVars, exc, project_created, push_string, cfgVars, gerritVars, mirror,
                   gitVars, matAction, tok, grpVars, groupsWritten, dirty>>
    /\ environ' = UpdatedEnviron(environ, SshEnv)

\* fetch_config: checkout -B config remotes/gerrit-meta/config
CheckoutConfig ==
    /\ pc = "checkout_config"
    /\ \E ok \in BOOLEAN :
         /\ Outcome(ok, repoExists[cur])
         /\ Issue("checkout -B config", ok)
         /\ errors' = IF ok THEN errors ELSE errors \cup {"Failed to checkout config"}
         /\ head' = IF ok THEN [head EXCEPT ![cur] = "config"] ELSE head
         /\ branches' = IF ok THEN [branches EXCEPT ![cur]["config"] = "meta"] ELSE branches
         /\ pc' = AndThen(ok, "copy_acl")
    /\ UNCHANGED <<runVars, exc, project_created, push_string, cfgVars, gerritVars, mirror,
                   repoExists, origin, remoteUpstream, upstreamHead, copyRefs, matAction, tok,
                   grpVars, groupsWritten, dirty>>
    /\ UNCHANGED environ

\* copy_acl_config whose last statement is `return True`.
CopyChangedAlways(cpOk, diffQuiet) == TRUE

\* copy_acl_config that returns True whenever cp succeeded.
CopyChangedIgnoringDiff(cpOk, diffQuiet) == cpOk

\* copy_acl_config's result: True only if cp succeeded and `git diff --quiet` exited
\* non-zero.
CopyChanged(cpOk, diffQuiet) == cpOk /\ ~diffQuiet

\* copy_acl_config: cp the document over project.config, then git diff --quiet, which
\* exits 0 when refs/meta/config already holds the rendered document.
CopyAclConfig ==
    /\ pc = "copy_acl"
    /\ IF ~IssuedOk("acl document")
       THEN /\ pc' = "cleanup_reset"
            /\ UNCHANGED <<faultVars, cmds, dirty, line>>
       ELSE \E cpOk \in BOOLEAN :
              /\ Outcome(cpOk, repoExists[cur])
              /\ cmds' = IF cpOk
                         THEN cmds \o <<[c |-> "cp", ok |-> TRUE],
                                        [c |-> "diff --quiet", ok |-> gerritMeta[cur]]>>
                         ELSE Append(cmds, [c |-> "cp", ok |-> FALSE])
              /\ dirty' = (cpOk /\ ~gerritMeta[cur])
              /\ IF CopyChanged(cpOk, gerritMeta[cur])
                 THEN pc' = "grp_line" /\ line' = 1
                 ELSE pc' = "cleanup_reset" /\ UNCHANGED line
    /\ UNCHANGED <<runVars, exc, project_created, push_string, cfgVars, gerritVars, mirror,
                   gitVars, errors, matAction, tok, uuids, polls, seen, queries, creates,
                   uuid, groupsWritten>>
    /\ UNCHANGED environ

\* The group of the document line create_groups_file is reading.
CurGroup == AclGroupLines[line]

\* _get_group_uuid: the row of account_groups, if any.
QueryFinds(g) == gerritGroup[g] = "visible"

\* The locals of one call of get_group_uuid.
ResetGroupLocals ==
    /\ polls' = 0
    /\ seen' = FALSE
    /\ queries' = 0
    /\ creates' = 0
    /\ uuid' = "unset"

\* create_groups_file: one iteration of `for line in open(acl_config)`; a group that
\* is already in uuids is skipped, another one enters get_group_uuid.
GroupLine ==
    /\ pc = "grp_line"
    /\ IF line > Len(AclGroupLines)
       THEN /\ pc' = "grp_write"
            /\ UNCHANGED line
       ELSE IF CurGroup \in uuids
       THEN /\ line' = line + 1
            /\ pc' = "grp_line"
       ELSE /\ pc' = "grp_query"
            /\ UNCHANGED line
    /\ ResetGroupLocals
    /\ UNCHANGED uuids
    /\ UNCHANGED <<runVars, exc, faultVars, project_created, push_string, cfgVars, gerritVars,
                   mirror, gitVars, cmds, errors, matAction, tok, groupsWritten, dirty>>
    /\ UNCHANGED environ

\* create_groups_file that goes on with the next line when a group has no UUID.
GroupStepIgnoringFailure(u) == "grp_line"

\* create_groups_file: `if uuid: uuids[group] = uuid` and the next line, `else:
\* log.error(...); return False`, which makes main() skip push_acl_config.
GroupStep(u) == IF u = "found" THEN "grp_line" ELSE "cleanup_reset"

\* get_group_uuid: uuid = _get_group_uuid(group); if uuid: return uuid
GroupQuery ==
    /\ pc = "grp_query"
    /\ queries' = queries + 1
    /\ IF QueryFinds(CurGroup)
       THEN /\ uuid' = "found"
            /\ uuids' = uuids \cup {CurGroup}
            /\ line' = line + 1
            /\ pc' = GroupStep(uuid')
       ELSE /\ pc' = "grp_create"
            /\ UNCHANGED <<uuid, uuids, line>>
    /\ UNCHANGED <<runVars, exc, faultVars, project_created, push_string, cfgVars, gerritVars,
                   mirror, gitVars, cmds, errors, matAction, tok, polls, seen, creates,
                   groupsWritten, dirty>>
    /\ UNCHANGED environ

\* get_group_uuid: gerrit.createGroup(group); an exception of the call is caught by
\* main()'s `except Exception`.
GroupCreate ==
    /\ pc = "grp_create"
    /\ creates' = creates + 1
    /\ \E ok \in BOOLEAN :
         /\ Outcome(ok, TRUE)
         /\ Issue("createGroup", ok)
         /\ gerritGroup' = IF ok /\ gerritGroup[CurGroup] = "absent"
                           THEN [gerritGroup EXCEPT ![CurGroup] = "pending"]
                           ELSE gerritGroup
         /\ errors' = IF ok THEN errors ELSE errors \cup {"Exception processing ACLS"}
         /\ pc' = IF ok THEN "grp_poll" ELSE "cleanup_reset"
    /\ UNCHANGED <<runVars, exc, project_created, push_string, cfgVars, gerritProject,
                   gerritMeta, mirror, gitVars, matAction, tok, line, uuids, polls, seen,
                   queries, uuid, groupsWritten, dirty>>
    /\ UNCHANGED environ

\* _wait_for_group without the break.
KeepPollingWithoutBreak(n, listed) == n < MaxPolls

\* _wait_for_group: `for x in range(10)` goes on while the range is not exhausted and
\* no poll has listed the group (break).
KeepPolling(n, listed) == n < MaxPolls /\ ~listed

\* _wait_for_group: one gerrit.listGroups() and, unless the group is listed, sleep(1).
GroupPoll ==
    /\ pc = "grp_poll"
    /\ IF KeepPolling(polls, seen)
       THEN /\ polls' = polls + 1
            /\ seen' = (gerritGroup[CurGroup] = "visible")
            /\ pc' = "grp_poll"
       ELSE /\ pc' = "grp_requery"
            /\ UNCHANGED <<polls, seen>>
    /\ UNCHANGED <<runVars, exc, faultVars, project_created, push_string, cfgVars, gerritVars,
                   mirror, gitVars, cmds, errors, matAction, tok, line, uuids, queries,
                   creates, uuid, groupsWritten, dirty>>
    /\ UNCHANGED environ

\* get_group_uuid: the second _get_group_uuid; create_groups_file returns False when
\* it finds nothing.
GroupRequery ==
    /\ pc = "grp_requery"
    /\ queries' = queries + 1
    /\ IF QueryFinds(CurGroup)
       THEN /\ uuid' = "found"
            /\ uuids' = uuids \cup {CurGroup}
            /\ line' = line + 1
            /\ UNCHANGED errors
       ELSE /\ uuid' = "none"
            /\ errors' = errors \cup {"Unable to get UUID for group"}
            /\ UNCHANGED <<uuids, line>>
    /\ pc' = GroupStep(uuid')
    /\ UNCHANGED <<runVars, exc, faultVars, project_created, push_string, cfgVars, gerritVars,
                   mirror, gitVars, cmds, matAction, tok, polls, seen, creates,
                   groupsWritten, dirty>>
    /\ UNCHANGED environ

\* create_groups_file with `if uuids:` inverted.
GroupsFileWrittenWhenEmpty(u) == u = {}

\* create_groups_file: `if uuids:` guards the writing of the groups file.
GroupsFileWritten(u) == u # {}

\* create_groups_file: write the groups file if uuids is not empty, then git add groups.
WriteGroups ==
    /\ pc = "grp_write"
    /\ groupsWritten' = GroupsFileWritten(uuids)
    /\ \E ok \in BOOLEAN :
         /\ Outcome(ok, repoExists[cur] /\ uuids # {})
         /\ Issue("add groups", ok)
         /\ errors' = IF ok THEN errors ELSE errors \cup {"Failed to add groups file"}
         /\ pc' = AndThen(ok, "commit_acl")
    /\ UNCHANGED <<runVars, exc, project_created, push_string, cfgVars, gerritVars, mirror,
                   gitVars, matAction, tok, grpVars, dirty>>
    /\ UNCHANGED environ

\* push_acl_config: commit -a -m'Update project config.'
CommitAcl ==
    /\ pc = "commit_acl"
    /\ \E ok \in BOOLEAN :
         /\ Outcome(ok, repoExists[cur] /\ dirty)
         /\ Issue("commit", ok)
         /\ errors' = IF ok THEN errors ELSE errors \cup {"Failed to commit config"}
         /\ branches' = IF ok THEN [branches EXCEPT ![cur][head[cur]] = "acl"] ELSE branches
         /\ dirty' = IF ok THEN FALSE ELSE dirty
         /\ pc' = AndThen(ok, "push_acl")
    /\ UNCHANGED <<runVars, exc, project_created, push_string, cfgVars, gerritVars, mirror,
                   repoExists, origin, head, remoteUpstream, upstreamHead, copyRefs, matAction,
                   tok, grpVars, groupsWritten>>
    /\ UNCHANGED environ

\* push_acl_config: push <gerrit> HEAD:refs/meta/config
PushAcl ==
    /\ pc = "push_acl"
    /\ \E ok \in BOOLEAN :
         /\ Outcome(ok, repoExists[cur] /\ gerritProject[cur] # "absent"
                          /\ branches[cur][head[cur]] = "acl")
         /\ Issue("push meta/config", ok)
         /\ errors' = IF ok THEN errors ELSE errors \cup {"Failed to push config"}
         /\ gerritMeta' = IF ok THEN [gerritMeta EXCEPT ![cur] = TRUE] ELSE gerritMeta
    /\ pc' = "cleanup_reset"
    /\ UNCHANGED <<runVars, exc, project_created, push_string, cfgVars, gerritProject,
                   gerritGroup, mirror, gitVars, matAction, tok, grpVars, groupsWritten,
                   dirty>>
    /\ environ' = UpdatedEnviron(environ, SshEnv)

\* finally: git reset --hard
CleanupReset ==
    /\ pc = "cleanup_reset"
    /\ Issue("reset --hard", repoExists[cur])
    /\ dirty' = FALSE
    /\ ResetGroupLocals
    /\ pc' = "cleanup_checkout"
    /\ UNCHANGED <<runVars, exc, faultVars, project_created, push_string, cfgVars, gerritVars,
                   mirror, gitVars, errors, matAction, tok, line, uuids, groupsWritten>>
    /\ UNCHANGED environ

\* `git checkout master` finds the local branch, or creates it from the one remote
\* branch of that name (upstream's, when no local master exists).
CheckoutMasterOk(p) ==
    repoExists[p] /\ (branches[p]["master"] # "none" \/ remoteUpstream[p] = "fetched")

\* finally: git checkout master
CleanupCheckout ==
    /\ pc = "cleanup_checkout"
    /\ Issue("checkout master", CheckoutMasterOk(cur))
    /\ IF CheckoutMasterOk(cur)
       THEN /\ head' = [head EXCEPT ![cur] = "master"]
            /\ branches' = IF branches[cur]["master"] = "none"
                           THEN [branches EXCEPT ![cur]["master"] = "upstream"]
                           ELSE branches
       ELSE UNCHANGED <<head, branches>>
    /\ pc' = "cleanup_branch"
    /\ UNCHANGED <<runVars, exc, faultVars, project_created, push_string, cfgVars, gerritVars,
                   mirror, repoExists, origin, remoteUpstream, upstreamHead, copyRefs, errors,
                   matAction, tok, grpVars, groupsWritten, dirty>>
    /\ UNCHANGED environ

\* `git branch -D config` deletes the branch unless it is missing or checked out.
DeleteConfigOk(p) ==
    repoExists[p] /\ branches[p]["config"] # "none" /\ head[p] # "config"

\* finally: git branch -D config; then the next section, or the pending exception
\* goes on to the outer finally.
CleanupBranch ==
    /\ pc = "cleanup_branch"
    /\ Issue("branch -D config", DeleteConfigOk(cur))
    /\ branches' = IF DeleteConfigOk(cur) THEN [branches EXCEPT ![cur]["config"] = "none"]
                                          ELSE branches
    /\ pc' = IF exc = "none" THEN "done" ELSE "unlink"
    /\ UNCHANGED <<runVars, exc, faultVars, project_created, push_string, cfgVars, gerritVars,
                   mirror, repoExists, origin, head, remoteUpstream, upstreamHead, copyRefs, errors,
                   matAction, tok, grpVars, groupsWritten, dirty>>
    /\ UNCHANGED environ

\* The next iteration of `for section in configs[1]`, or the end of the loop.
NextSection ==
    /\ pc = "done"
    /\ IF cur < sections
       THEN /\ cur' = cur + 1
            /\ ResetSection
            /\ pc' = "create"
       ELSE /\ pc' = "unlink"
            /\ UNCHANGED <<cur, sectionVars>>
    /\ UNCHANGED <<exc, runResult, faults, project_list, push_string, sshWrapper, cfgVars,
                   gerritVars, mirror, gitVars>>
    /\ UNCHANGED environ

\* The outer finally: os.unlink(ssh_env['GIT_SSH']); main() ends.
Unlink ==
    /\ pc = "unlink"
    /\ sshWrapper' = FALSE
    /\ runResult' = IF exc = "none" THEN "completed" ELSE exc
    /\ exc' = "none"
    /\ cur' = 0
    /\ project_list' = {}
    /\ push_string' = "undef"
    /\ ResetSection
    /\ pc' = "idle"
    /\ UNCHANGED <<faults, cfgVars, gerritVars, mirror, gitVars>>
    /\ environ' = {}

\* The operator interrupts the run: KeyboardInterrupt is raised at the statement
\* main() is at.  Inside the ACL try block the inner finally runs first; elsewhere,
\* the inner finally included, the exception goes straight to the outer finally.
Interrupt ==
    /\ pc \notin {"idle", "unlink"}
    /\ Disturbed(TRUE)
    /\ exc' = "interrupt"
    /\ pc' = Raise(pc)
    /\ UNCHANGED <<runVars, project_created, push_string, cfgVars, gerritVars, mirror,
                   gitVars, cmds, errors, matAction, tok, grpVars, groupsWritten, dirty>>
    /\ UNCHANGED environ

\* Gerrit makes a group whose creation was requested visible (to the account_groups
\* query and to the listing).
Propagate ==
    /\ \E g \in Groups :
         /\ gerritGroup[g] = "pending"
         /\ gerritGroup' = [gerritGroup EXCEPT ![g] = "visible"]
    /\ UNCHANGED <<pc, runVars, exc, faults, project_created, push_string, cfgVars,
                   gerritProject, gerritMeta, mirror, gitVars, sectionVars>>
    /\ UNCHANGED environ

\* Between two runs a change is merged through Gerrit: the master branch of a project
\* that has one moves to a commit that upstream does not have.
GerritMerge ==
    /\ pc = "idle"
    /\ faults < MaxFaults
    /\ \E p \in 1..sections :
         /\ gerritProject[p] \notin {"absent", "empty", "merged"}
         /\ gerritProject' = [gerritProject EXCEPT ![p] = "merged"]
    /\ faults' = faults + 1
    /\ UNCHANGED <<pc, runVars, exc, fault, project_created, push_string, cfgVars,
                   gerritMeta, gerritGroup, mirror, gitVars, cmds, errors, matAction, tok,
                   grpVars, groupsWritten, dirty>>
    /\ UNCHANGED environ

Next ==
    \/ GerritMerge
    \/ RunStart
    \/ CreateProject
    \/ InitMirror
    \/ Materialize
    \/ CloneFromGerrit
    \/ AddUpstreamRemote
    \/ CloneUpstream
    \/ FetchCopyRefs
    \/ RenameRemotes
    \/ GitInit
    \/ BootstrapCommit
    \/ RefreshRemote
    \/ RefreshUpdate
    \/ RefreshCheckout
    \/ PublishGithub
    \/ GithubOrg
    \/ GithubRepo
    \/ InitialPush
    \/ SyncUpdate
    \/ SyncBranch
    \/ SyncPush
    \/ RenderAcl
    \/ FetchConfig
    \/ CheckoutConfig
    \/ CopyAclConfig
    \/ GroupLine
    \/ GroupQuery
    \/ GroupCreate
    \/ GroupPoll
    \/ GroupRequery
    \/ WriteGroups
    \/ CommitAcl
    \/ PushAcl
    \/ CleanupReset
    \/ CleanupCheckout
    \/ CleanupBranch
    \/ NextSection
    \/ Unlink
    \/ Interrupt
    \/ Propagate

Spec == Init /\ [][Next]_vars

SpecSingle == InitSingle /\ [][Next]_vars

(***************************************************************************)
(* Properties.                                                             *)
(***************************************************************************)

\* The step that is being taken issues command c.
Added(c) == \E i \in (Len(cmds) + 1)..Len(cmds') : cmds'[i].c = c

\* C1: when the ACL step of a project was entered and the processing of the project
\* has ended, the cache checkout is on master and has no local config branch.
C1_CleanCheckout ==
    (pc = "done" /\ Issued("fetch meta/config") /\ repoExists[cur])
        => (head[cur] = "master" /\ branches[cur]["config"] = "none")

\* C2: no exception raised while a project is processed ends the run before the last
\* declared project was processed.
C2_NoEscape == ~(pc = "unlink" /\ exc = "error" /\ cur < sections)

\* The commands and API calls of main()'s project creation, materialization and
\* upstream synchronization.
MaterializationAndSync ==
    {"createProject", "clone gerrit", "remote add -f upstream", "clone upstream",
     "fetch copy refs", "remote rename origin upstream", "remote add origin", "init",
     "add .gitreview", "commit .gitreview", "remote add upstream",
     "remote set-url upstream", "remote update", "checkout -B master origin/master",
     "remote update upstream", "checkout -B master", "checkout -B HEAD",
     "checkout -B upstream/master", "checkout -B upstream/HEAD",
     "push origin heads", "push origin --tags"}

\* C3: a failed command or API call of a project's creation, materialization or
\* upstream synchronization is the last command issued for that project.
C3_FailureStops ==
    \A i \in 1..Len(cmds) :
        (cmds[i].c \in MaterializationAndSync /\ ~cmds[i].ok) => i = Len(cmds)

\* C4: when the one disturbance so far was the interrupt that ended the previous run,
\* a project that the re-run has processed has its seed pushed to Gerrit.
C4_RerunConverges ==
    (pc = "done" /\ runResult = "interrupt" /\ faults = 1)
        => gerritProject[cur] \notin {"absent", "empty"}

\* C5: while refs/meta/config holds the rendered document the ACL step issues neither
\* the commit nor the push to refs/meta/config; the branch-sync step does issue
\* `checkout -B master` for a master that is at upstream's tip, and this leaves the
\* tip of master and what Gerrit holds unchanged.
C5_NoChangeNoCommit ==
    [][/\ (pc # "idle" /\ gerritMeta[cur])
             => (~Added("commit") /\ ~Added("push meta/config"))
       /\ (Added("checkout -B master") /\ branches[cur]["master"] = "upstream")
             => (branches'[cur]["master"] = "upstream" /\ gerritProject' = gerritProject)]_vars

\* C5: a later run over a project whose metadata is in Gerrit has passed the ACL step
\* without a difference, after the branch-sync step reset master.
C5_SecondRun ==
    /\ pc = "done"
    /\ matAction = "refresh"
    /\ IssuedOk("checkout -B master")
    /\ IssuedOk("diff --quiet")
    /\ gerritMeta[cur]

\* C5 as stated: a run that refreshes a project whose metadata is in Gerrit issues no
\* commit, no push to refs/meta/config and no `checkout -B` of a branch that is at
\* upstream's tip.
C5_NoMutatingCommand ==
    [][(pc # "idle" /\ matAction = "refresh" /\ gerritMeta[cur])
          => /\ ~Added("commit")
             /\ ~Added("push meta/config")
             /\ ~(Added("checkout -B master") /\ branches[cur]["master"] = "upstream")]_vars

\* The groups that the lines of the rendered document reference.
ReferencedGroups == {AclGroupLines[i] : i \in DOMAIN AclGroupLines}

AclErrors ==
    {"Failed to fetch refs/meta/config", "Failed to checkout config",
     "Unable to get UUID for group", "Failed to add groups file",
     "Failed to commit config", "Failed to push config", "Exception processing ACLS"}

\* C7: once `git diff --quiet` has found no difference, the ACL step resolves no group,
\* writes no groups file, commits and pushes nothing and logs no failure; it is in its
\* cleanup or over, and when the project is done the three cleanup commands were issued.
C7_NoDifferenceNoOp ==
    IssuedOk("diff --quiet")
        => /\ pc \in AclCleanup \cup {"done", "unlink"}
           /\ uuids = {}
           /\ ~groupsWritten
           /\ ~Issued("createGroup")
           /\ ~Issued("add groups")
           /\ ~Issued("commit")
           /\ ~Issued("push meta/config")
           /\ errors \cap AclErrors = {}
           /\ pc = "done" => /\ Issued("reset --hard")
                             /\ Issued("checkout master")
                             /\ Issued("branch -D config")

\* C7: a project is done whose ACL step found no difference.
C7_Unchanged ==
    /\ pc = "done"
    /\ IssuedOk("diff --quiet")
    /\ Issued("branch -D config")

\* C8: a group whose re-query after the polling finds nothing was queried twice and
\* created once, and the polling had ended; from then on the ACL step is in its cleanup
\* or over, with no groups file written, nothing added, committed or pushed.
C8_UnresolvedAborts ==
    /\ uuid = "none"
           => /\ queries = 2
              /\ creates = 1
              /\ (seen \/ polls = MaxPolls)
              /\ pc \in {"cleanup_reset", "unlink"}
    /\ "Unable to get UUID for group" \in errors
           => /\ pc \in AclCleanup \cup {"done", "unlink"}
              /\ ~groupsWritten
              /\ ~Issued("add groups")
              /\ ~Issued("commit")
              /\ ~Issued("push meta/config")

\* C8: the polls were used up without the group being listed and the re-query found
\* nothing.
C8_TimedOut ==
    /\ pc = "cleanup_reset"
    /\ uuid = "none"
    /\ polls = MaxPolls
    /\ ~seen
    /\ IssuedOk("createGroup")

\* C8 as stated: a group that no poll of the ten listed is not resolved.
C8_NotListedFails ==
    (polls = MaxPolls /\ ~seen /\ queries = 2) => uuid = "none"

\* C9: in every step of a resolution there are at most two queries, one creation and
\* MaxPolls polls, MaxPolls + 3 calls in all; the creation follows one query that found
\* nothing; a poll follows the creation and no poll that listed the group; the second
\* query follows the end of the polling.
C9_BoundedResolution ==
    [][/\ queries' <= 2
       /\ creates' <= 1
       /\ polls' <= MaxPolls
       /\ queries' + creates' + polls' <= MaxPolls + 3
       /\ creates' > creates => (queries = 1 /\ creates = 0 /\ polls = 0 /\ uuid = "unset")
       /\ polls' > polls => (~seen /\ creates = 1 /\ queries = 1)
       /\ queries' > queries
              => \/ (queries = 0 /\ creates = 0 /\ polls = 0)
                 \/ (queries = 1 /\ creates = 1 /\ (seen \/ polls = MaxPolls))]_vars

\* C9: a resolution that used every poll and both queries.
C9_LongestResolution ==
    /\ queries = 2
    /\ creates = 1
    /\ polls = MaxPolls
    /\ uuid = "found"

\* C10: when the materialization is over, one of the four actions was performed.
C10_ActionSelected ==
    pc = "publish" => matAction \in {"clone", "import", "fresh", "refresh"}

\* C11: for a project that this run created in Gerrit, the materialization takes the
\* upstream import when an upstream is configured and the fresh init otherwise, also
\* when the cache directory exists; it takes neither the refresh nor the clone from
\* Gerrit.
C11_CreatedIsNotRefreshed ==
    project_created
        => /\ pc \notin {"clone_gerrit", "add_upstream", "refresh_remote", "refresh_update",
                         "refresh_checkout"}
           /\ matAction \in {"none", IF upstream[cur] THEN "import" ELSE "fresh"}
           /\ pc \notin {"create", "mirror", "materialize", "unlink"} => matAction # "none"
           /\ ~Issued("clone gerrit")
           /\ ~Issued("remote update")
           /\ ~Issued("checkout -B master origin/master")
           /\ ~(Issued("clone upstream") /\ Issued("init"))

\* C11: the project was created in this run, its cache directory was there already, and
\* the fresh init or the upstream import was started.
C11_CreatedWithCache ==
    /\ project_created
    /\ repoExists[cur]
    /\ pc \in {"git_init", "clone_upstream"}

\* C12: no cache checkout has a local branch named after the alias of the symbolic ref
\* line, remotes/upstream/HEAD.
C12_NoAliasBranch == \A p \in Projects : branches[p]["HEAD"] = "none"

\* The current project was not listed by Gerrit, had no cache checkout and has no
\* upstream, and no command or call of its processing was disturbed.
FreshScenario ==
    /\ matAction = "fresh"
    /\ cur \notin project_list
    /\ IssuedOk("remote add origin")
    /\ ~fault

\* C13: in the fresh scenario the project is created in Gerrit before the bare mirror
\* and the cache checkout are made; the cache gets one commit, the one of .gitreview,
\* on master; master is pushed to Gerrit once, after that commit, and Gerrit then holds
\* that commit.
C13_FreshInit ==
    FreshScenario
        => /\ IssuedOk("createProject")
           /\ Before("createProject", "bare init")
           /\ Before("createProject", "init")
           /\ pc # "gitreview"
                  => /\ Count("commit .gitreview") = 1
                     /\ IssuedOk("commit .gitreview")
                     /\ branches[cur]["master"] = "boot"
           /\ Count("push initial") <= 1
           /\ Before("commit .gitreview", "push initial")
           /\ Issued("push initial")
                  => (IssuedOk("push initial") /\ gerritProject[cur] = "boot")
           /\ pc \notin {"gitreview", "publish", "github_org", "github_repo", "initial_push"}
                  => Issued("push initial")

\* C13: a project of the fresh scenario is done and its master was pushed.
C13_FreshDone ==
    /\ FreshScenario
    /\ pc = "done"
    /\ IssuedOk("bare init")
    /\ IssuedOk("push initial")

\* The current project was listed by Gerrit, had no cache checkout, has an upstream and
\* does not track it, and no command or call of its processing was disturbed.
CloneScenario ==
    /\ matAction = "clone"
    /\ upstream[cur]
    /\ ~track_upstream[cur]
    /\ ~fault

\* The commands of main() that create or reset a local branch or push to refs/heads or
\* refs/tags of the Gerrit project, and those of the other materialization branches.
BranchMutations ==
    {"clone upstream", "fetch copy refs", "init", "commit .gitreview",
     "checkout -B master origin/master", "remote update upstream", "checkout -B master",
     "checkout -B HEAD", "checkout -B upstream/master", "checkout -B upstream/HEAD",
     "push initial", "push --tags", "push origin heads",
     "push origin --tags"}

\* C14: in the clone scenario the cache is cloned from Gerrit, then upstream is added
\* and fetched as the remote "upstream"; no command that creates or resets a local
\* branch or pushes to Gerrit's branches is issued, and up to the ACL step the only
\* local branch is the one the clone checked out.
C14_CloneOnly ==
    CloneScenario
        => /\ pc # "clone_gerrit" => IssuedOk("clone gerrit")
           /\ pc \notin {"clone_gerrit", "add_upstream"}
                  => /\ IssuedOk("remote add -f upstream")
                     /\ Before("clone gerrit", "remote add -f upstream")
                     /\ remoteUpstream[cur] = "fetched"
           /\ \A c \in BranchMutations : ~Issued(c)
           /\ pc \in {"add_upstream", "publish", "github_org", "github_repo", "initial_push",
                     "sync", "acl"}
                  => branches[cur] = [NoBranches EXCEPT !["master"] = GerritTip(cur)]

\* C14: a project of the clone scenario is done, with upstream added as second remote.
C14_CloneDone ==
    /\ CloneScenario
    /\ pc = "done"
    /\ IssuedOk("remote add -f upstream")

\* C15: the wrapper file exists exactly while a run is under way; it is created only by
\* the start of a run and removed only by the step that ends the run, whichever way the
\* run ends.
C15_WrapperLifetime ==
    [][/\ sshWrapper' <=> (pc' # "idle")
       /\ sshWrapper' # sshWrapper
              => \/ (pc = "idle" /\ pc' = "create" /\ sshWrapper')
                 \/ (pc = "unlink" /\ pc' = "idle" /\ ~sshWrapper')]_vars

\* C15: a run was ended by an exception and the wrapper file is gone.
C15_RemovedAfterAbort ==
    /\ pc = "idle"
    /\ runResult = "error"
    /\ ~sshWrapper

\* C16: os.environ of the run holds no variable of the overrides passed to a command.
C16_EnvironUnchanged == environ \cap SshEnv = {}

\* Every variable but pc and the command log.
restVars == <<sections, cur, environ, exc, runResult, fault, faults, project_list,
              project_created, push_string, sshWrapper, upstream, track_upstream,
              upstream_prefix,
              gerritProject, gerritMeta, gerritGroup, mirror, repoExists, origin, head, branches,
              remoteUpstream, upstreamHead, copyRefs, errors, matAction, tok, line, uuids,
              polls, seen, queries, creates, uuid, groupsWritten, dirty>>

\* C17: main() leaves the lookup of the project's organization among GitHub's either
\* for the initial push, with no call that creates or edits a repository, no message
\* logged, no exception and nothing else changed (no such organization), or for the
\* calls on the repository; and when these calls succeed main() goes on to the initial
\* push in the state the silent return leads to, but for the calls made.
C17_NoAuthoritySkips ==
    [][/\ pc = "github_org"
              => \/ (pc' = "initial_push" /\ UNCHANGED <<restVars, cmds>>)
                 \/ (pc' = "github_repo" /\ UNCHANGED <<restVars, cmds>>)
                 \/ (pc' = "unlink" /\ exc' = "interrupt")
                 \/ pc' = pc
       /\ (pc = "github_repo" /\ pc' = "initial_push")
              => /\ UNCHANGED restVars
                 /\ cmds' = Append(cmds, [c |-> "github repo", ok |-> TRUE])]_vars

\* C17: the organizations of the GitHub user are about to be searched for the one of a
\* project that this run created and whose initial push is owed.
C17_OrgLookedUp ==
    /\ pc = "github_org"
    /\ project_created
    /\ ~fault

\* C18: on the refresh path of a project with an upstream configured, once the remote
\* step is over (`remote update --prune` is next) the checkout has a remote named
\* upstream.
C18_UpstreamRemoteAfterRefresh ==
    (pc = "refresh_update" /\ matAction = "refresh" /\ upstream[cur])
        => remoteUpstream[cur] # "none"

\* C19: push_string is used only under `if project_created:`, and a project that this
\* run created went through the fresh or the import branch, which assigned it: the use
\* never meets an undefined name, and no project gets an initial push on the refresh or
\* the clone-from-Gerrit path.
C19_PushStringDefinedAtUse ==
    /\ (project_created /\ pc \in {"publish", "github_org", "github_repo", "initial_push"})
           => /\ matAction \in {"fresh", "import"}
              /\ push_string = IF matAction = "fresh" THEN "head" ELSE "copy"
    /\ Issued("push initial") => (project_created /\ matAction \in {"fresh", "import"})
    /\ "Error pushing to Gerrit" \notin errors

\* C19: a project on the refresh or the clone-from-Gerrit path is past the initial-push
\* step while push_string was never assigned in this run.
C19_UndefinedNotUsed ==
    /\ pc = "sync"
    /\ matAction \in {"refresh", "clone"}
    /\ push_string = "undef"
    /\ ~Issued("push initial")

\* C19: the use is unconditional: every project that is past the initial-push step has
\* evaluated push_string, so that either the push was issued or the undefined name
\* raised the exception that the step logs.
C19_UsedUnconditionally ==
    pc = "sync" => (Issued("push initial") \/ "Error pushing to Gerrit" \in errors)

\* The local branch that the sync sets for upstream's branch master.
SyncedMaster(p) == PrefixedBranch(upstream_prefix[p], "master")

\* The commands of the upstream sync.
SyncCommands == {"remote update upstream", "push origin heads", "push origin --tags"}
                    \cup {"checkout -B " \o PrefixedBranch(x, lb) :
                            x \in BOOLEAN, lb \in {"master", "HEAD"}}

\* C20: a step issues a command of the upstream sync only for a project with
\* track-upstream set; for upstream's branch master the `checkout -B` names the local
\* branch master, or upstream/master when the project has the upstream prefix, and
\* leaves that branch at upstream's tip, whatever it was before; and the step that
\* pushes the local branches and the tags comes when every word of the branch listing
\* was visited, every upstream branch of it has had its `checkout -B`, the local
\* branch for upstream's master is at upstream's tip, and no `checkout -B` of the sync
\* follows the push.
C20_SyncForcesThenPushes ==
    [][/\ (\E c \in SyncCommands : Added(c)) => track_upstream[cur]
       /\ pc' \in {"sync_branch", "sync_push"} => track_upstream'[cur']
       /\ Added("checkout -B " \o PrefixedBranch(~upstream_prefix[cur], "master")) => FALSE
       /\ Added("checkout -B " \o SyncedMaster(cur))
              => /\ cmds'[Len(cmds')].ok
                 /\ branches'[cur][SyncedMaster(cur)] = "upstream"
                 /\ head'[cur] = SyncedMaster(cur)
                 /\ \A b \in BranchNames \ {SyncedMaster(cur)} :
                      branches'[cur][b] = branches[cur][b]
       /\ Added("push origin heads")
              => /\ Added("push origin --tags")
                 /\ tok > Len(BranchListing(cur))
                 /\ \A i \in 1..Len(BranchListing(cur)) :
                      LET t == BranchListing(cur)[i]
                      IN (StartsWithRemotesUpstream(t) /\ ~HasArrow(t))
                             => Issued("checkout -B "
                                         \o PrefixedBranch(upstream_prefix[cur], LocalBranch(t)))
                 /\ Issued("checkout -B " \o SyncedMaster(cur))
                        => branches[cur][SyncedMaster(cur)] = "upstream"
       /\ (\E c \in SyncCommands \ {"remote update upstream", "push origin heads",
                                    "push origin --tags"} : Added(c))
              => ~Issued("push origin heads")]_vars

\* C20: the refresh had reset the local master to a commit merged through Gerrit, which
\* upstream does not have, and the sync has set it to upstream's tip; the push is next.
C20_LocalBranchOverwritten ==
    /\ pc = "sync_push"
    /\ matAction = "refresh"
    /\ gerritProject[cur] = "merged"
    /\ IssuedOk("checkout -B master origin/master")
    /\ IssuedOk("checkout -B master")
    /\ branches[cur]["master"] = "upstream"

\* C21: on the import path the commands come in the order clone of upstream, fetch of
\* origin's branches into refs/copy/heads, rename of origin to upstream, addition of
\* Gerrit as origin, initial push; a fetch that succeeded leaves the copied refs in
\* place for the rest of the project's processing; the initial push is the one of the
\* copied refs, it succeeds only when they were copied and Gerrit then holds upstream's
\* tip, and when they were not copied the project is left empty, whatever the local
\* branches hold.
C21_QuarantineSeeds ==
    matAction = "import"
        => /\ Before("clone upstream", "fetch copy refs")
           /\ Before("fetch copy refs", "remote rename origin upstream")
           /\ Before("remote rename origin upstream", "push initial")
           /\ \A i \in 1..Len(cmds) :
                cmds[i].c = "remote rename origin upstream"
                    => (i < Len(cmds) /\ cmds[i + 1].c = "remote add origin")
           /\ Count("clone upstream") <= 1 /\ Count("fetch copy refs") <= 1
           /\ Count("remote rename origin upstream") <= 1 /\ Count("push initial") <= 1
           /\ (IssuedOk("fetch copy refs") /\ IssuedOk("clone upstream")) => copyRefs[cur]
           /\ Issued("push initial") => push_string = "copy"
           /\ IssuedOk("push initial") => (copyRefs[cur] /\ gerritProject[cur] = "upstream")
           /\ (pc = "sync" /\ ~copyRefs[cur]) => gerritProject[cur] \in {"absent", "empty"}

\* C21: an imported project is past its initial push, which seeded Gerrit with the
\* copied refs.
C21_Seeded ==
    /\ matAction = "import"
    /\ pc = "sync"
    /\ IssuedOk("fetch copy refs")
    /\ IssuedOk("push initial")
    /\ gerritProject[cur] = "upstream"

\* The statements of create_groups_file.
GroupSteps == {"grp_line", "grp_query", "grp_create", "grp_poll", "grp_requery", "grp_write"}

\* The commands of the ACL step that follow the fetch of refs/meta/config.
AfterFetch == {"checkout -B config", "cp", "diff --quiet", "add groups", "commit",
               "push meta/config"}

\* C22: the ACL step of a project issues each of its commands at most in the order
\* fetch of refs/meta/config, checkout of the config branch, copy of the document and
\* diff, group resolution, `git add groups`, commit, push, and each only when the one
\* before it succeeded (the diff: when it found a difference).  After a failed fetch
\* none of the later commands is issued and no group is resolved or created, and the
\* commit and the push come only after a successful `git add groups`.
C22_AclStepsGated ==
    [][/\ Added("fetch meta/config")
              => (~Issued("fetch meta/config") /\ \A c \in AfterFetch : ~Issued(c))
       /\ Added("checkout -B config")
              => (IssuedOk("fetch meta/config") /\ ~Issued("checkout -B config"))
       /\ Added("cp") => (IssuedOk("checkout -B config") /\ ~Issued("cp"))
       /\ Added("diff --quiet") => (Added("cp") /\ IssuedOk("cp")')
       /\ (\E g \in Groups : gerritGroup[g] = "absent" /\ gerritGroup'[g] # "absent")
              => pc = "grp_create"
       /\ pc' \in GroupSteps
              => (/\ IssuedOk("fetch meta/config")' /\ IssuedOk("checkout -B config")'
                  /\ IssuedOk("cp")'
                  /\ Issued("diff --quiet")' /\ ~IssuedOk("diff --quiet")'
                  /\ ~Issued("add groups") /\ ~Issued("commit"))
       /\ Added("add groups")
              => (pc = "grp_write" /\ ~Issued("add groups") /\ ~Issued("commit"))
       /\ Added("commit")
              => (IssuedOk("add groups") /\ ~Issued("commit") /\ ~Issued("push meta/config"))
       /\ Added("push meta/config")
              => (IssuedOk("commit") /\ IssuedOk("add groups")
                    /\ ~Issued("push meta/config"))
       /\ (Issued("fetch meta/config") /\ ~IssuedOk("fetch meta/config"))
              => (/\ \A c \in AfterFetch : ~Added(c)
                  /\ pc' \notin GroupSteps
                  /\ \A g \in Groups :
                       gerritGroup[g] = "absent" => gerritGroup'[g] = "absent")]_vars

\* C22: every command of the ACL step succeeded, the push to refs/meta/config last.
C22_AllStepsRan ==
    /\ pc = "cleanup_reset"
    /\ IssuedOk("fetch meta/config")
    /\ IssuedOk("checkout -B config")
    /\ IssuedOk("cp")
    /\ IssuedOk("add groups")
    /\ IssuedOk("commit")
    /\ IssuedOk("push meta/config")

====
